---- MODULE Spec2Model ----
(***************************************************************************)
(* Task registry and background runner of the media processing routes      *)
(* (app/api/routes/transcribe_video.py) together with the adapter          *)
(* operations of ProcessingService (app/services/transcription_service.py) *)
(* that the runner dispatches to; and the synchronous endpoints            *)
(* (spell-correct, text-to-speech, image-to-text, pdf-to-markdown,         *)
(* speech-to-text) with the services behind them.                          *)
(* Further: the check-accessibility endpoint with AccessibilityService     *)
(* (AuditSpec), and the object names under which the image and audio       *)
(* uploads are written to the storage bucket (StoreSpec).                  *)
(*                                                                         *)
(* Texts are sequences of tokens, messages are sequences of strings, a     *)
(* Python dict is a function whose domain is its key set, and an Optional  *)
(* value is the empty sequence (None) or a one-element sequence.           *)
(***************************************************************************)
EXTENDS Integers, Sequences, FiniteSets, TLC

\* Number of submissions explored.
MaxTasks == 2

\* Values uuid4() may return; one more than the submissions explored, so
\* that a client can always poll an identifier that was never issued.
TaskIds == 1..(MaxTasks + 1)

\* class ProcessingType
ProcessingType == {"transcription", "translation", "summarization"}

\* Path segments a client may POST to /process/{process_type}.
ProcessTypeInputs == ProcessingType \cup {"transcribe", "ocr"}

\* Extensions of the uploaded file name.
FileExtensions == {".MP3", ".txt"}

\* Uploaded payloads (byte strings).
Payloads == {<<7>>}

\* The options process_file passes on: the route's default, an empty dict,
\* for which summarize reads use_gemini_direct as True.
OptionSets == {[use_gemini_direct |-> TRUE]}

\* response.text values the provider may return.
ProviderTexts ==
    { <<" ", "\n">>,
      <<"TRANSCRIPTION:", "\n", "w", "\n", "SUMMARY:", " ", "w", "\n">> }

\* Messages of the exceptions the provider call may raise.
ProviderErrors == { <<"quota exceeded">> }

None == <<>>
Some(v) == <<v>>

----------------------------------------------------------------------------
(* String helpers of the Python runtime, on token sequences.               *)

Whitespace == {" ", "\n"}

RECURSIVE lstrip(_)
lstrip(s) == IF s # <<>> /\ Head(s) \in Whitespace THEN lstrip(Tail(s)) ELSE s

RECURSIVE rstrip(_)
rstrip(s) ==
    IF s # <<>> /\ s[Len(s)] \in Whitespace
    THEN rstrip(SubSeq(s, 1, Len(s) - 1))
    ELSE s

strip(s) == rstrip(lstrip(s))

\* str.split(sep): parts holds the pieces found so far, the last one open
RECURSIVE split_from(_, _, _)
split_from(s, sep, parts) ==
    IF s = <<>> THEN parts
    ELSE IF Head(s) = sep
    THEN split_from(Tail(s), sep, Append(parts, <<>>))
    ELSE split_from(Tail(s), sep, [parts EXCEPT ![Len(parts)] = Append(@, Head(s))])

split(s, sep) == split_from(s, sep, << <<>> >>)

replace(s, tok) == SelectSeq(s, LAMBDA x : x # tok)

RECURSIVE join(_, _)
join(parts, sep) ==
    IF parts = <<>> THEN <<>>
    ELSE IF Len(parts) = 1 THEN parts[1]
    ELSE parts[1] \o <<sep>> \o join(Tail(parts), sep)

contains(s, tok) == \E i \in 1..Len(s) : s[i] = tok

lower(ext) == IF ext = ".MP3" THEN ".mp3" ELSE ext

\* str(e) of an exception built from one message argument
str(e) == e.msg

Exception(m) == [type |-> "Exception", msg |-> m]
ValueError(m) == [type |-> "ValueError", msg |-> m]

----------------------------------------------------------------------------
(* ProcessingService                                                       *)

supported_formats ==
    {".mp4", ".avi", ".mov", ".mkv", ".webm", ".flv", ".m4v",
     ".mp3", ".wav", ".aac", ".ogg", ".flac", ".m4a"}

\* variant: every upload goes to one directory
file_location_flat(process_type, task_id, file_extension) ==
    [dir |-> <<"uploads">>, name |-> task_id, ext |-> file_extension]

\* f"{upload_dir}/{task_id}{file_extension}"
file_location(process_type, task_id, file_extension) ==
    [dir |-> <<"uploaded_", process_type>>, name |-> task_id, ext |-> file_extension]

\* os.path.splitext(file_path)[1]
splitext1(file_path) == file_path.ext

is_supported_file(file_path) == lower(splitext1(file_path)) \in supported_formats

\* Outcomes of a (partial) adapter execution: it returned, it raised, or it
\* is inside generate_content waiting for the provider.
Return(v) == [kind |-> "return", value |-> v]
Raise(e) == [kind |-> "raise", exc |-> e]
Call(stage, ctx) == [kind |-> "call", stage |-> stage, ctx |-> ctx]

NotInitialized ==
    Exception(<<"Gemini model not initialized. Please provide project_id during initialization.">>)

UnsupportedFormat == [error |-> <<"Unsupported file format. Supported formats: ", "supported_formats">>]

\* _process_with_gemini_direct once generate_content has answered
process_with_gemini_direct(answer) ==
    IF answer.kind = "text"
    THEN Return(answer.text)
    ELSE Raise(Exception(<<"Gemini direct media processing error: ">> \o answer.msg))

\* text.strip() for each text the provider may return, tabulated
stripped == [text \in ProviderTexts |-> strip(text)]

\* transcribe up to its provider call
transcribe_begin(gemini_model, file_path, stage) ==
    IF ~gemini_model THEN Raise(NotInitialized)
    ELSE IF ~is_supported_file(file_path) THEN Return(UnsupportedFormat)
    ELSE Call(stage, None)

\* transcribe from the answer of its provider call on
transcribe_end(answer) ==
    LET r == process_with_gemini_direct(answer)
    IN  IF r.kind = "return"
        THEN Return([transcript |-> stripped[r.value],
                     segments |-> <<>>,
                     language |-> "auto-detected",
                     method |-> <<"gemini_direct">>])
        ELSE Raise(Exception(<<"Gemini transcription error: ">> \o str(r.exc)))

translate_begin(gemini_model, file_path) ==
    IF ~gemini_model THEN Raise(NotInitialized)
    ELSE IF ~is_supported_file(file_path) THEN Return(UnsupportedFormat)
    ELSE Call("translate", None)

translate_end(answer) ==
    LET r == process_with_gemini_direct(answer)
    IN  IF r.kind = "return"
        THEN Return([transcript |-> stripped[r.value],
                     translation |-> stripped[r.value],
                     target_language |-> "English",
                     segments |-> <<>>,
                     method |-> <<"gemini_direct">>])
        ELSE Raise(Exception(<<"Gemini translation error: ">> \o str(r.exc)))

\* the line-by-line fallback parsing of summarize
RECURSIVE parse_lines(_, _, _, _)
parse_lines(lines, current_section, transcript_lines, summary_lines) ==
    IF lines = <<>> THEN <<transcript_lines, summary_lines>>
    ELSE LET line == Head(lines)
         IN  IF contains(line, "SUMMARY:")
             THEN parse_lines(Tail(lines), "summary", transcript_lines, summary_lines)
             ELSE IF contains(line, "TRANSCRIPTION:")
             THEN parse_lines(Tail(lines), "transcript", transcript_lines, summary_lines)
             ELSE IF current_section = "transcript"
             THEN parse_lines(Tail(lines), current_section,
                              Append(transcript_lines, line), summary_lines)
             ELSE parse_lines(Tail(lines), current_section,
                              transcript_lines, Append(summary_lines, line))

\* summarize: parsing of the direct answer into transcript and summary
parse_direct(result_text) ==
    LET parts == split(result_text, "SUMMARY:")
    IN  IF Len(parts) = 2
        THEN [transcript |-> strip(replace(parts[1], "TRANSCRIPTION:")),
              summary |-> strip(parts[2])]
        ELSE LET p == parse_lines(split(result_text, "\n"), "transcript", <<>>, <<>>)
             IN  [transcript |-> strip(join(p[1], "\n")),
                  summary |-> strip(join(p[2], "\n"))]

\* parse_direct for each text the provider may return, tabulated
parsed == [text \in ProviderTexts |-> parse_direct(text)]

\* summarize up to its first provider call
summarize_begin(gemini_model, file_path, options) ==
    IF options.use_gemini_direct /\ gemini_model
    THEN Call("summarize_direct", None)
    ELSE LET t == transcribe_begin(gemini_model, file_path, "summarize_transcribe")
         IN  t

\* summarize from the answer of the provider call of the given stage on
summarize_resume(gemini_model, file_path, stage, ctx, answer) ==
    IF stage = "summarize_direct"
    THEN LET r == process_with_gemini_direct(answer)
         IN  IF r.kind = "return"
             THEN LET p == parsed[r.value]
                  IN  Return([transcript |-> p.transcript,
                              summary |-> p.summary,
                              summary_type |-> "general",
                              language |-> "auto-detected",
                              segments |-> <<>>,
                              method |-> <<"gemini_direct">>])
             ELSE transcribe_begin(gemini_model, file_path, "summarize_transcribe")
    ELSE IF stage = "summarize_transcribe"
    THEN LET t == transcribe_end(answer)
         IN  IF t.kind = "raise" THEN t
             ELSE IF "error" \in DOMAIN t.value THEN t
             ELSE IF ~gemini_model
             THEN Return([transcript |-> t.value.transcript,
                          error |-> <<"Summarization failed: ">> \o str(NotInitialized),
                          language |-> t.value.language,
                          segments |-> t.value.segments,
                          method |-> t.value.method])
             ELSE Call("summarize_summary", Some(t.value))
    ELSE LET transcription_result == ctx[1]
         IN  IF answer.kind = "text"
             THEN Return([transcript |-> transcription_result.transcript,
                          summary |-> answer.text,
                          summary_type |-> "general",
                          language |-> transcription_result.language,
                          segments |-> transcription_result.segments,
                          method |-> transcription_result.method \o <<"_+_gemini_summary">>])
             ELSE Return([transcript |-> transcription_result.transcript,
                          error |-> <<"Summarization failed: ">>
                                      \o <<"Gemini summarization error: ">> \o answer.msg,
                          language |-> transcription_result.language,
                          segments |-> transcription_result.segments,
                          method |-> transcription_result.method])

----------------------------------------------------------------------------
(* Routes of app/api/routes/transcribe_video.py                            *)

VARIABLES
    tasks,          \* the module-level dict: task_id -> task record (a dict)
    files,          \* local disk: file path -> bytes
    uploads,        \* process_file coroutines suspended at `await file.read()`
    background,     \* per submission: the add_task arguments and the position of the run
    call,           \* the generate_content call the event loop is blocked in, if any
    resp,           \* the response sent to a client by the latest step, if any
    hist,           \* per identifier, what happened so far: add_task calls, runs started,
                    \* status writes, provider calls made and failed, the payload read,
                    \* the run's outcome
    gemini_model,   \* whether ProcessingService.__init__ found a project id
    req,            \* the request a synchronous endpoint is handling, if any, with the
                    \* provider call its adapter is waiting in
    log,            \* for the latest synchronous request: the adapter operation
                    \* invoked, its provider calls and how it ended
    check,          \* the frame of run_accessibility_check while the handler of
                    \* check-accessibility waits in one of its awaited calls
    summarizing,    \* the frame of generate_summary while it is inside a model call
    ended,          \* for the latest check-accessibility request: how
                    \* run_accessibility_check and generate_summary ended
    now,            \* the wall clock, in ticks
    bucket,         \* the storage bucket: object name -> the invocation that wrote it
    uploaded        \* number of upload invocations so far

vars ==
    <<tasks, files, uploads, background, call, resp, hist, gemini_model, req, log,
      check, summarizing, ended, now, bucket, uploaded>>

\* the state of the synchronous endpoints
syncvars == <<req, log>>

\* the state of the check-accessibility endpoint
auditvars == <<check, summarizing, ended>>

\* the state of the storage bucket and the clock
storevars == <<now, bucket, uploaded>>

\* the state of the task routes
taskvars == <<tasks, files, uploads, background, call, hist, gemini_model>>

\* process_file_background is a coroutine that awaits nothing: while it is
\* inside a provider call nothing else runs on the event loop.
LoopFree == call = None

Issued == DOMAIN uploads \cup DOMAIN background

\* variant: an identifier is drawn again once its submission was handled
uuid4_reused ==
    CHOOSE id \in TaskIds \ DOMAIN uploads : \A other \in TaskIds \ DOMAIN uploads : id <= other

\* str(uuid.uuid4()): an identifier that was not issued before
uuid4 == CHOOSE id \in TaskIds \ Issued : \A other \in TaskIds \ Issued : id <= other

\* variant: the record is stored with another initial status
NewTask_queued(file_path, process_type) ==
    [status |-> "queued", file_path |-> file_path, process_type |-> process_type]

\* the dict literal stored by process_file
NewTask(file_path, process_type) ==
    [status |-> "processing", file_path |-> file_path, process_type |-> process_type]

\* ProcessingResponse(...) returned by process_file
ProcessingResponse(task_id, process_type, file_path) ==
    [task_id |-> task_id,
     message |-> <<"File uploaded and ", process_type, " task started">>,
     file_path |-> file_path]

\* variant: the path parameter is a plain string and is not validated
ValidProcessType_any(p) == TRUE

\* the request validation of the `process_type: ProcessingType` parameter
ValidProcessType(p) == p \in ProcessingType

\* tasks[task_id]["status"] = "completed"; tasks[task_id]["result"] = result
SetCompleted(task, result) ==
    ("status" :> "completed") @@ ("result" :> result) @@ task

\* variant: there is no except clause, the exception escapes the run
SetFailed_escapes(task, e) == task

\* variant: the except clause stores the error and leaves the status alone
SetFailed_error_only(task, e) ==
    ("error" :> str(e)) @@ task

\* variant: the except clause stores the exception with its type name
SetFailed_repr(task, e) ==
    ("status" :> "failed") @@ ("error" :> (<<e.type>> \o e.msg)) @@ task

\* tasks[task_id]["status"] = "failed"; tasks[task_id]["error"] = str(e)
SetFailed(task, e) ==
    ("status" :> "failed") @@ ("error" :> str(e)) @@ task

\* variant: the transcription and translation branches are exchanged
dispatch_begin_swapped(gm, process_type, file_path, options) ==
    IF process_type = "transcription" THEN translate_begin(gm, file_path)
    ELSE IF process_type = "translation" THEN transcribe_begin(gm, file_path, "transcribe")
    ELSE IF process_type = "summarization" THEN summarize_begin(gm, file_path, options)
    ELSE Raise(ValueError(<<"Unsupported process type: ", process_type>>))

\* the if / elif chain of process_file_background, up to the first provider call
dispatch_begin(gm, process_type, file_path, options) ==
    IF process_type = "transcription" THEN transcribe_begin(gm, file_path, "transcribe")
    ELSE IF process_type = "translation" THEN translate_begin(gm, file_path)
    ELSE IF process_type = "summarization" THEN summarize_begin(gm, file_path, options)
    ELSE Raise(ValueError(<<"Unsupported process type: ", process_type>>))

\* the adapter operation continuing after the provider answered
dispatch_resume(gm, file_path, stage, ctx, answer) ==
    IF stage = "transcribe" THEN transcribe_end(answer)
    ELSE IF stage = "translate" THEN translate_end(answer)
    ELSE summarize_resume(gm, file_path, stage, ctx, answer)

\* task.get(key)
get(task, key) == IF key \in DOMAIN task THEN Some(task[key]) ELSE None

\* ProcessingResult(...) returned by get_processing_result
ProcessingResult(task_id, task) ==
    [task_id |-> task_id,
     status |-> task["status"],
     result |-> get(task, "result"),
     error |-> get(task, "error")]

\* variant: an unknown identifier is answered like a task still processing
get_processing_result_default(task_id) ==
    [kind |-> "poll", code |-> 200, task_id |-> task_id,
     body |-> IF task_id \in DOMAIN tasks
              THEN ProcessingResult(task_id, tasks[task_id])
              ELSE [task_id |-> task_id, status |-> "processing",
                    result |-> None, error |-> None]]

\* raise HTTPException(status_code=404, detail="Task not found"), or the
\* ProcessingResult of the stored record
get_processing_result(task_id) ==
    IF task_id \notin DOMAIN tasks
    THEN [kind |-> "poll", code |-> 404, task_id |-> task_id, detail |-> "Task not found"]
    ELSE [kind |-> "poll", code |-> 200, task_id |-> task_id,
          body |-> ProcessingResult(task_id, tasks[task_id])]

\* no response is sent
NoResponse == [kind |-> "none", code |-> 0]

\* neither run_accessibility_check nor generate_summary has ended
NoEnd == [check |-> None, summary |-> None]

NoHist ==
    [scheduled |-> 0, started |-> 0, transitions |-> 0, calls |-> 0, errors |-> 0,
     payload |-> None, outcome |-> None]

Init ==
    /\ tasks = <<>>
    /\ files = <<>>
    /\ uploads = <<>>
    /\ background = <<>>
    /\ call = None
    /\ resp = NoResponse
    /\ hist = [t \in TaskIds |-> NoHist]
    /\ gemini_model \in BOOLEAN
    /\ req = None
    /\ log = <<>>
    /\ check = None
    /\ summarizing = None
    /\ ended = NoEnd
    /\ now = 0
    /\ bucket = <<>>
    /\ uploaded = 0

\* POST /process/{process_type} with a segment that is no ProcessingType:
\* the handler is not entered.
SubmitRejected(p) ==
    /\ LoopFree
    /\ ~ValidProcessType(p)
    /\ resp' = [kind |-> "submit", code |-> 422, process_type |-> p]
    /\ UNCHANGED <<tasks, files, uploads, background, call, hist, gemini_model, syncvars, auditvars, storevars>>

\* process_file from entry to `await file.read()`: the identifier is drawn,
\* the path is built and the file is opened for writing.
SubmitBegin(p, ext, payload, options) ==
    /\ LoopFree
    /\ ValidProcessType(p)
    /\ Cardinality(Issued) < MaxTasks
    /\ LET task_id == uuid4
           loc == file_location(p, task_id, ext)
       IN  /\ uploads' = (task_id :> [process_type |-> p, file_location |-> loc,
                                       payload |-> payload, options |-> options])
                           @@ uploads
           /\ files' = (loc :> <<>>) @@ files
    /\ resp' = NoResponse
    /\ UNCHANGED <<tasks, background, call, hist, gemini_model, syncvars, auditvars, storevars>>

\* process_file after the read: write the file, store the task record,
\* add the background task, return the response object.
SubmitFinish(task_id) ==
    /\ LoopFree
    /\ task_id \in DOMAIN uploads
    /\ LET u == uploads[task_id]
       IN  /\ files' = (u.file_location :> u.payload) @@ files
           /\ tasks' = (task_id :> NewTask(u.file_location, u.process_type)) @@ tasks
           /\ background' =
                 (task_id :> [file_path |-> u.file_location,
                              process_type |-> u.process_type,
                              options |-> u.options,
                              pc |-> "returned"])
                 @@ background
    /\ uploads' = [t \in DOMAIN uploads \ {task_id} |-> uploads[t]]
    /\ hist' = [hist EXCEPT ![task_id].scheduled = @ + 1,
                            ![task_id].payload = Some(uploads[task_id].payload)]
    /\ resp' = NoResponse
    /\ UNCHANGED <<call, gemini_model, syncvars, auditvars, storevars>>

\* The response of process_file is sent; its background tasks run afterwards.
SendResponse(task_id) ==
    /\ LoopFree
    /\ task_id \in DOMAIN background
    /\ background[task_id].pc = "returned"
    /\ resp' = [kind |-> "submit", code |-> 200,
                process_type |-> background[task_id].process_type,
                body |-> ProcessingResponse(task_id, background[task_id].process_type,
                                            background[task_id].file_path)]
    /\ background' = [background EXCEPT ![task_id].pc = "sent"]
    /\ UNCHANGED <<tasks, files, uploads, call, hist, gemini_model, syncvars, auditvars, storevars>>

\* variant: the entry of a finished run is removed from the registry
Settle_evict(task_id, outcome) ==
    /\ tasks' = [t \in DOMAIN tasks \ {task_id} |-> tasks[t]]
    /\ background' = [background EXCEPT ![task_id].pc = "done"]
    /\ call' = None

\* The run has an outcome: the try block ends normally or in the except clause.
Settle(task_id, outcome) ==
    /\ tasks' = [tasks EXCEPT ![task_id] =
                    IF outcome.kind = "return"
                    THEN SetCompleted(@, outcome.value)
                    ELSE SetFailed(@, outcome.exc)]
    /\ background' = [background EXCEPT ![task_id].pc = "done"]
    /\ call' = None

\* The run enters generate_content.
Enter(task_id, outcome) ==
    /\ call' = Some([task_id |-> task_id, stage |-> outcome.stage, ctx |-> outcome.ctx])
    /\ background' = [background EXCEPT ![task_id].pc = "running"]
    /\ UNCHANGED tasks

\* variant: the run is started when the handler returns, before the
\* response is sent
MayStart_early(b) == b.pc \in {"returned", "sent"}

\* variant: a finished run may be started again
MayStart_rerun(b) == b.pc \in {"sent", "done"}

\* whether a scheduled run may start
MayStart(b) == b.pc = "sent"

\* process_file_background from its start to its first provider call, or to
\* its end when the adapter makes none.
BackgroundStart(task_id) ==
    /\ LoopFree
    /\ task_id \in DOMAIN background
    /\ MayStart(background[task_id])
    /\ LET b == background[task_id]
           o == dispatch_begin(gemini_model, b.process_type, b.file_path, b.options)
       IN  IF o.kind = "call"
           THEN /\ Enter(task_id, o)
                /\ hist' = [hist EXCEPT ![task_id].started = @ + 1,
                                        ![task_id].calls = @ + 1]
           ELSE /\ Settle(task_id, o)
                /\ hist' = [hist EXCEPT ![task_id].started = @ + 1,
                                        ![task_id].transitions = @ + 1,
                                        ![task_id].outcome = Some(o)]
    /\ resp' = NoResponse
    /\ UNCHANGED <<files, uploads, gemini_model, syncvars, auditvars, storevars>>

\* generate_content answers (returns a text or raises) and the run goes on
\* to its next provider call or to its end.
ProviderAnswer(answer) ==
    /\ call # None
    /\ LET c == call[1]
           b == background[c.task_id]
           o == dispatch_resume(gemini_model, b.file_path, c.stage, c.ctx, answer)
           failed == IF answer.kind = "error" THEN 1 ELSE 0
       IN  IF o.kind = "call"
           THEN /\ Enter(c.task_id, o)
                /\ hist' = [hist EXCEPT ![c.task_id].calls = @ + 1,
                                        ![c.task_id].errors = @ + failed]
           ELSE /\ Settle(c.task_id, o)
                /\ hist' = [hist EXCEPT ![c.task_id].transitions = @ + 1,
                                        ![c.task_id].errors = @ + failed,
                                        ![c.task_id].outcome = Some(o)]
    /\ resp' = NoResponse
    /\ UNCHANGED <<files, uploads, gemini_model, syncvars, auditvars, storevars>>

ProviderReturns(text) ==
    /\ call # None
    /\ ProviderAnswer([kind |-> "text", text |-> text])

ProviderRaises(msg) ==
    /\ call # None
    /\ ProviderAnswer([kind |-> "error", msg |-> msg])

\* variant: a task is dropped from the registry once its outcome was read
Poll_pop(task_id) ==
    /\ LoopFree
    /\ resp' = get_processing_result(task_id)
    /\ tasks' = IF task_id \in DOMAIN tasks /\ tasks[task_id].status # "processing"
                THEN [t \in DOMAIN tasks \ {task_id} |-> tasks[t]]
                ELSE tasks
    /\ UNCHANGED <<files, uploads, background, call, hist, gemini_model, syncvars, auditvars, storevars>>

\* GET /process/{task_id}
Poll(task_id) ==
    /\ LoopFree
    /\ resp' = get_processing_result(task_id)
    /\ UNCHANGED <<tasks, files, uploads, background, call, hist, gemini_model, syncvars, auditvars, storevars>>

Next ==
    \/ \E p \in ProcessTypeInputs : SubmitRejected(p)
    \/ \E p \in ProcessTypeInputs, ext \in FileExtensions,
          payload \in Payloads, options \in OptionSets :
         SubmitBegin(p, ext, payload, options)
    \/ \E t \in TaskIds : SubmitFinish(t)
    \/ \E t \in TaskIds : SendResponse(t)
    \/ \E t \in TaskIds : BackgroundStart(t)
    \/ \E text \in ProviderTexts : ProviderReturns(text)
    \/ \E msg \in ProviderErrors : ProviderRaises(msg)
    \/ \E t \in TaskIds : Poll(t)

Spec == Init /\ [][Next]_vars

\* The provider answers every call (it returns or it raises).
ProviderResponds ==
    \/ \E text \in ProviderTexts : ProviderReturns(text)
    \/ \E msg \in ProviderErrors : ProviderRaises(msg)

\* The framework sends every response and then runs the background tasks
\* attached to it, and the provider is reachable.
Progress ==
    \/ \E t \in TaskIds : SendResponse(t)
    \/ \E t \in TaskIds : BackgroundStart(t)
    \/ ProviderResponds

LiveSpec == Spec /\ WF_vars(Progress)

----------------------------------------------------------------------------
(* Synchronous endpoints: app/api/routes/{spell_correct, text_to_speech,   *)
(* image_to_text, pdf_converter, speech_to_text}.py and their services.    *)
(* A handler runs from the arrival of the request to the response; it      *)
(* stops in between at every call of an external provider.                 *)

\* request.text of spell-correct and text-to-speech
RequestTexts == { <<>>, <<" ", "\n">>, <<" ", "teh", " ">> }

\* contents of the uploaded file
Contents == { <<>>, <<7>> }

\* the method form field of image-to-text
Methods == {"tesseract", "gemini", "ocr"}

\* what a provider call may return, by call
AnswerValues(stage) ==
    IF stage = "generate_content_async" THEN { <<" ", "the", "\n">> }
    ELSE IF stage \in {"image_to_string", "document_text_detection"} THEN { <<>>, <<"w">> }
    ELSE IF stage = "generate_content"
    THEN { <<"EXPLANATION:", " ", "w", "\n", "CONTEXT:", " ", "w">>, <<"w">> }
    ELSE { <<>> }

HTTPException(status_code, detail) ==
    [type |-> "HTTPException", status_code |-> status_code, detail |-> detail, msg |-> detail]

TypeError(m) == [type |-> "TypeError", msg |-> m]

\* variant: the early return hands back the stripped text
correct_text_begin_stripped(text) ==
    IF strip(text) = <<>> THEN Return(strip(text)) ELSE Call("generate_content_async", None)

\* GeminiSpellCorrectService.correct_text up to its provider call
correct_text_begin(text) ==
    IF strip(text) = <<>> THEN Return(text) ELSE Call("generate_content_async", None)

\* GeminiSpellCorrectService.correct_text from the answer on
correct_text_end(answer) ==
    IF answer.kind = "text"
    THEN Return(strip(answer.text))
    ELSE Raise(HTTPException(500, <<"Gemini API error: ">> \o answer.msg))

\* blob.public_url
public_url == <<"public_url">>

\* TextToSpeechService.convert_text_to_speech up to its first provider call
convert_text_to_speech_begin == Call("synthesize_speech", None)

\* TextToSpeechService.convert_text_to_speech from the answer of a call on:
\* synthesize_speech, blob.upload_from_string, blob.make_public
convert_text_to_speech_resume(stage, answer) ==
    IF answer.kind = "error"
    THEN Raise(Exception(<<"Failed to convert text to speech: ">> \o answer.msg))
    ELSE IF stage = "synthesize_speech" THEN Call("audio_upload_from_string", None)
    ELSE IF stage = "audio_upload_from_string" THEN Call("audio_make_public", None)
    ELSE Return(public_url)

\* ImageToTextService.extract_text_from_image up to the OCR engine call
extract_text_from_image_begin == Call("image_to_string", None)

\* ImageToTextService.extract_text_from_image from the answer on
extract_text_from_image_end(answer) ==
    IF answer.kind = "text"
    THEN Return(<<answer.text, "0.95">>)
    ELSE Raise(Exception(<<"Failed to extract text from image: ">> \o answer.msg))

\* GeminiVisionService._extract_text_with_vision once the Vision call has
\* answered (the fields process_image reads)
extract_text_with_vision(answer) ==
    IF answer.kind = "text"
    THEN [full_text |-> answer.text, confidence_score |-> "blocks[0].confidence"]
    ELSE [full_text |-> <<>>, confidence_score |-> "0"]

\* the EXPLANATION section of the Gemini answer
explanation_of(full_response) ==
    IF contains(full_response, "EXPLANATION:")
    THEN strip(split(split(full_response, "EXPLANATION:")[2], "CONTEXT:")[1])
    ELSE <<"No explanation provided.">>

\* GeminiVisionService._analyze_with_gemini once generate_content has
\* answered (the fields process_image reads)
analyze_with_gemini(answer) ==
    IF answer.kind = "text"
    THEN [explanation |-> explanation_of(answer.text), gemini_response |-> answer.text]
    ELSE [explanation |-> <<"Error analyzing image: ">> \o answer.msg, gemini_response |-> <<>>]

\* GeminiVisionService.process_image up to its first provider call, the
\* upload in upload_to_gcs
process_image_begin == Call("image_upload_from_string", None)

\* GeminiVisionService.process_image from the answer of a call on
process_image_resume(stage, ctx, answer) ==
    IF stage \in {"image_upload_from_string", "image_make_public"}
    THEN IF answer.kind = "error"
         THEN Raise(Exception(<<"Failed to process image: ">>
                                \o <<"Failed to upload image to GCS: ">> \o answer.msg))
         ELSE IF stage = "image_upload_from_string"
         THEN Call("image_make_public", None)
         ELSE Call("document_text_detection", None)
    ELSE IF stage = "document_text_detection"
    THEN Call("generate_content", Some([ocr_result |-> extract_text_with_vision(answer)]))
    ELSE IF stage = "generate_content"
    THEN LET started == convert_text_to_speech_begin
         IN  Call(started.stage, Some([ocr_result |-> ctx[1].ocr_result,
                                       gemini_result |-> analyze_with_gemini(answer)]))
    ELSE LET audio == convert_text_to_speech_resume(stage, answer)
         IN  IF audio.kind = "call" THEN Call(audio.stage, ctx)
             ELSE IF audio.kind = "raise"
             THEN Raise(Exception(<<"Failed to process image: ">> \o str(audio.exc)))
             ELSE Return([image_url |-> public_url,
                          audio_path |-> audio.value,
                          confidence_score |-> ctx[1].ocr_result.confidence_score,
                          extracted_text |-> ctx[1].ocr_result.full_text,
                          gemini_response |-> ctx[1].gemini_result.gemini_response,
                          explanation |-> ctx[1].gemini_result.explanation])

\* SpeechToTextService.convert_speech_to_text
convert_speech_to_text(audio_data) ==
    Return(<<"This is a placeholder for transcribed text from the audio.", "0.9">>)

\* the adapter operation the handler of a request invokes, if it gets to one
adapter_of(request) ==
    IF request.endpoint = "spell-correct" THEN "correct_text"
    ELSE IF request.endpoint = "text-to-speech" THEN "convert_text_to_speech"
    ELSE IF request.endpoint = "speech-to-text" THEN "convert_speech_to_text"
    ELSE IF request.endpoint = "image-to-text" /\ request.method = "tesseract"
    THEN "extract_text_from_image"
    ELSE IF request.endpoint = "image-to-text" /\ request.method = "gemini"
    THEN "process_image"
    ELSE "none"

\* the adapter operation up to its first provider call
adapter_begin(request) ==
    IF request.endpoint = "spell-correct" THEN correct_text_begin(request.text)
    ELSE IF request.endpoint = "text-to-speech" THEN convert_text_to_speech_begin
    ELSE IF request.endpoint = "speech-to-text" THEN convert_speech_to_text(request.contents)
    ELSE IF request.method = "tesseract" THEN extract_text_from_image_begin
    ELSE process_image_begin

\* the adapter operation from the answer of a provider call on
adapter_resume(request, stage, ctx, answer) ==
    IF request.endpoint = "spell-correct" THEN correct_text_end(answer)
    ELSE IF request.endpoint = "text-to-speech" THEN convert_text_to_speech_resume(stage, answer)
    ELSE IF request.method = "tesseract" THEN extract_text_from_image_end(answer)
    ELSE process_image_resume(stage, ctx, answer)

\* a, b, c = value
unpack(value, n, tuple) ==
    IF Len(value) = n THEN Return(tuple)
    ELSE Raise(ValueError(<<"not enough values to unpack (expected ", ToString(n),
                            ", got ", ToString(Len(value)), ")">>))

\* the handler after its adapter operation returned or raised
route_finish(request, o) ==
    IF o.kind = "raise" THEN o
    ELSE IF request.endpoint = "spell-correct"
    THEN Return([corrected_text |-> o.value, original_text |-> request.text])
    ELSE IF request.endpoint = "text-to-speech"
    THEN Return([success |-> TRUE, message |-> "Text converted to speech",
                 audio_url |-> o.value])
    ELSE IF request.endpoint = "speech-to-text"
    THEN unpack(o.value, 2, [text |-> o.value[1], confidence |-> o.value[2]])
    ELSE IF request.method = "tesseract"
    THEN unpack(o.value, 3,
                [text |-> o.value[1], confidence |-> o.value[2],
                 explanation |-> "Text extracted using Tesseract OCR.",
                 audio_path |-> o.value[3]])
    ELSE Return([text |-> o.value.extracted_text,
                 confidence |-> o.value.confidence_score,
                 explanation |-> o.value.explanation,
                 audio_path |-> o.value.audio_path])

\* the handlers that end before any adapter operation: image-to-text with
\* another method, and pdf-to-markdown, whose PdfConverterService() call
\* lacks the api_key argument
route_without_adapter(request) ==
    IF request.endpoint = "image-to-text"
    THEN Return([error |-> "Invalid method. Please choose 'tesseract' or 'gemini'."])
    ELSE Raise(TypeError(<<"__init__() missing 1 required positional argument: 'api_key'">>))

\* required fields of the response_model of an endpoint
response_model(endpoint) ==
    IF endpoint = "spell-correct" THEN {"corrected_text", "original_text"}
    ELSE IF endpoint \in {"image-to-text", "speech-to-text"} THEN {"text"}
    ELSE IF endpoint = "pdf-to-markdown" THEN {"response_dict"}
    ELSE {}

InternalServerError(request) ==
    [kind |-> "sync", request |-> request, code |-> 500,
     detail |-> <<"Internal Server Error">>]

\* the response the framework sends for the outcome of a handler
respond(request, o) ==
    IF o.kind = "raise"
    THEN IF o.exc.type = "HTTPException"
         THEN [kind |-> "sync", request |-> request, code |-> o.exc.status_code,
               detail |-> o.exc.detail]
         ELSE InternalServerError(request)
    ELSE IF ~(response_model(request.endpoint) \subseteq DOMAIN o.value)
    THEN InternalServerError(request)
    ELSE [kind |-> "sync", request |-> request, code |-> 200, body |-> o.value]

\* entries of log
Invoked(op) == [ev |-> "invoke", op |-> op]
Called(api, ok) == [ev |-> "call", api |-> api, ok |-> ok]
Exited(kind) == [ev |-> "exit", kind |-> kind]

\* The handler goes on to the next provider call of its adapter operation,
\* or the operation ends and the response is sent.
Advance(request, events, o) ==
    IF o.kind = "call"
    THEN /\ req' = Some([request |-> request, stage |-> o.stage, ctx |-> o.ctx])
         /\ log' = events
         /\ resp' = NoResponse
    ELSE /\ req' = None
         /\ log' = Append(events, Exited(o.kind))
         /\ resp' = respond(request, route_finish(request, o))

\* The handler of a request runs to the first provider call, or to the
\* response when there is none.
Handle(request) ==
    /\ IF adapter_of(request) = "none"
       THEN /\ req' = None
            /\ log' = <<>>
            /\ resp' = respond(request, route_without_adapter(request))
       ELSE Advance(request, <<Invoked(adapter_of(request))>>, adapter_begin(request))
    /\ UNCHANGED <<taskvars, auditvars, storevars>>

\* POST /spell-correct
SpellCorrect(text) ==
    /\ req = None
    /\ Handle([endpoint |-> "spell-correct", text |-> text])

\* POST /text-to-speech
TextToSpeech(text) ==
    /\ req = None
    /\ Handle([endpoint |-> "text-to-speech", text |-> text])

\* POST /image-to-text
ImageToText(contents, method) ==
    /\ req = None
    /\ Handle([endpoint |-> "image-to-text", contents |-> contents, method |-> method])

\* POST /pdf-to-markdown
PdfToMarkdown(contents) ==
    /\ req = None
    /\ Handle([endpoint |-> "pdf-to-markdown", contents |-> contents])

\* POST /speech-to-text
SpeechToText(contents) ==
    /\ req = None
    /\ Handle([endpoint |-> "speech-to-text", contents |-> contents])

\* The provider call the handler waits in answers.
AdapterCallAnswers(answer) ==
    /\ req # None
    /\ Advance(req[1].request,
               Append(log, Called(req[1].stage, answer.kind = "text")),
               adapter_resume(req[1].request, req[1].stage, req[1].ctx, answer))
    /\ UNCHANGED <<taskvars, auditvars, storevars>>

AdapterCallReturns(value) ==
    /\ req # None
    /\ value \in AnswerValues(req[1].stage)
    /\ AdapterCallAnswers([kind |-> "text", text |-> value])

AdapterCallRaises(msg) ==
    /\ req # None
    /\ AdapterCallAnswers([kind |-> "error", msg |-> msg])

\* every value some provider call may return
AllAnswerValues ==
    UNION { AnswerValues(stage) :
              stage \in {"generate_content_async", "image_to_string",
                         "generate_content", "synthesize_speech"} }

SyncNext ==
    \/ \E text \in RequestTexts : SpellCorrect(text)
    \/ \E text \in RequestTexts : TextToSpeech(text)
    \/ \E contents \in Contents, method \in Methods : ImageToText(contents, method)
    \/ \E contents \in Contents : PdfToMarkdown(contents)
    \/ \E contents \in Contents : SpeechToText(contents)
    \/ \E value \in AllAnswerValues : AdapterCallReturns(value)
    \/ \E msg \in ProviderErrors : AdapterCallRaises(msg)

SyncSpec == Init /\ [][SyncNext]_vars

----------------------------------------------------------------------------
(* Storage object names: GeminiVisionService.upload_to_gcs and             *)
(* TextToSpeechService.convert_text_to_speech write to the same bucket.    *)
(* An invocation runs from the choice of the object name to the upload     *)
(* without yielding; the clock advances between invocations.               *)

\* upload invocations considered
MaxUploads == 3

\* length of the time line, in ticks
MaxTicks == 3

\* ticks of the clock per second
TicksPerSecond == 2

\* output_filename of a text-to-speech request
OutputFilenames == { None, Some("speech.mp3") }

\* datetime.now().strftime("%Y%m%d_%H%M%S"): the time to the second
strftime(t) == ToString(t \div TicksPerSecond)

\* the object name upload_to_gcs chooses when no filename is given
image_filename(t) == <<"image_", strftime(t), ".jpg">>

\* str(uuid.uuid4()): an identifier no earlier invocation drew
uuid4_object == ToString(uploaded + 1)

\* storage_path of convert_text_to_speech
storage_path(output_filename) ==
    IF output_filename = None
    THEN <<"generated/audio/", uuid4_object, ".mp3">>
    ELSE <<"generated/audio/", output_filename[1]>>

\* blob.upload_from_string under the given name: the object is created or
\* replaced when the call succeeds
upload_from_string(name, generated, ok) ==
    IF ok
    THEN (name :> [writer |-> uploaded + 1, generated |-> generated]) @@ bucket
    ELSE bucket

\* GeminiVisionService.upload_to_gcs(image_data), as process_image calls it
UploadImage(ok) ==
    /\ uploaded < MaxUploads
    /\ uploaded' = uploaded + 1
    /\ bucket' = upload_from_string(image_filename(now), TRUE, ok)
    /\ UNCHANGED <<now, resp, taskvars, syncvars, auditvars>>

\* TextToSpeechService.convert_text_to_speech from the choice of the file
\* name to the upload
UploadAudio(output_filename, ok) ==
    /\ uploaded < MaxUploads
    /\ uploaded' = uploaded + 1
    /\ bucket' = upload_from_string(storage_path(output_filename),
                                    output_filename = None, ok)
    /\ UNCHANGED <<now, resp, taskvars, syncvars, auditvars>>

\* Time passes.
Tick ==
    /\ now < MaxTicks
    /\ now' = now + 1
    /\ UNCHANGED <<bucket, uploaded, resp, taskvars, syncvars, auditvars>>

StoreNext ==
    \/ \E ok \in BOOLEAN : UploadImage(ok)
    \/ \E output_filename \in OutputFilenames, ok \in BOOLEAN :
         UploadAudio(output_filename, ok)
    \/ Tick

StoreSpec == Init /\ [][StoreNext]_vars

----------------------------------------------------------------------------
(* POST /web-accessibility/check-accessibility:                            *)
(* app/api/routes/web_accessibility.py and                                 *)
(* app/services/accessibility_service.py. The handler stops at every       *)
(* awaited browser call and at every model call of generate_summary.       *)

\* longest list of violations an audit reports
MaxViolations == 3

\* violations of an axe report: the rule id and the number of characters its
\* interpolated fields (id, description, impact, help, node count) take
Violations ==
    { [id |-> "image-alt", size |-> 34],
      [id |-> "label", size |-> 234],
      [id |-> "region", size |-> 534] }

ViolationLists == UNION { [1..n -> Violations] : n \in 0..MaxViolations }

\* summaries the model may produce
SummaryTexts == { <<"a">>, <<"b">> }

CHUNK_SIZE == 512

\* {}
EmptyDict == [key \in {} |-> None]

\* bool(result) of a dict
truthy(result) == DOMAIN result # {}

\* result.get("violations", [])
violations_of(result) ==
    IF "violations" \in DOMAIN result THEN result.violations ELSE <<>>

\* the f-string of the chunk loop: five labelled lines, 66 characters of
\* labels and line ends around the interpolated fields
violation_text(v) == [id |-> v.id, len |-> 66 + v.size]

\* len(chunk) of a chunk built by concatenating violation texts
RECURSIVE chars(_)
chars(chunk) == IF Len(chunk) = 0 THEN 0 ELSE Head(chunk).len + chars(Tail(chunk))

\* variant: only the length of the new text is compared with the limit
exceeds_alone(current_chunk, text) == text.len > CHUNK_SIZE

\* len(current_chunk) + len(text) > CHUNK_SIZE
exceeds(current_chunk, text) == chars(current_chunk) + text.len > CHUNK_SIZE

\* the loop over the violations and the append after it
RECURSIVE chunk_loop(_, _, _)
chunk_loop(violations, current_chunk, input_chunks) ==
    IF Len(violations) = 0
    THEN IF Len(current_chunk) # 0 THEN Append(input_chunks, current_chunk) ELSE input_chunks
    ELSE LET text == violation_text(Head(violations))
         IN  IF exceeds(current_chunk, text)
             THEN chunk_loop(Tail(violations), <<text>>,
                             IF Len(current_chunk) # 0
                             THEN Append(input_chunks, current_chunk)
                             ELSE input_chunks)
             ELSE chunk_loop(Tail(violations), Append(current_chunk, text), input_chunks)

NoViolationsMessage == <<"No accessibility violations were found.">>

\* generate_summary up to its first model call
generate_summary_begin(violations) ==
    IF Len(violations) = 0 THEN Return(NoViolationsMessage)
    ELSE LET input_chunks == chunk_loop(violations, <<>>, <<>>)
         IN  IF Len(input_chunks) = 0 THEN Return(join(<<>>, "\n\n"))
             ELSE Call("generate", [input_chunks |-> input_chunks, i |-> 1,
                                    summaries |-> <<>>])

\* variant: a failed model call ends generate_summary with an error text
generate_summary_resume_abort(ctx, answer) ==
    IF answer.kind = "error"
    THEN Return(<<"Error generating summary: ">> \o answer.msg)
    ELSE LET summaries == Append(ctx.summaries, answer.text)
         IN  IF ctx.i = Len(ctx.input_chunks) THEN Return(join(summaries, "\n\n"))
             ELSE Call("generate", [ctx EXCEPT !.i = @ + 1, !.summaries = summaries])

\* generate_summary from the end of the model call for chunk i on
generate_summary_resume(ctx, answer) ==
    LET summary == IF answer.kind = "text" THEN answer.text
                   ELSE <<"Error generating summary for part ", ToString(ctx.i)>>
        summaries == Append(ctx.summaries, summary)
    IN  IF ctx.i = Len(ctx.input_chunks) THEN Return(join(summaries, "\n\n"))
        ELSE Call("generate", [ctx EXCEPT !.i = @ + 1, !.summaries = summaries])

\* run_accessibility_check at its first awaited call
run_accessibility_check_begin ==
    [stage |-> "start", page |-> "none", browser |-> "none", p |-> "none",
     pending |-> None, outcome |-> None]

\* the end of run_accessibility_check: a pending return value is returned,
\* a pending exception is caught by the outer except clause, which returns {}
outer_except(f) ==
    [f EXCEPT !.stage = "returned",
              !.outcome = Some(IF f.pending[1].kind = "raise" THEN Return(EmptyDict)
                               ELSE f.pending[1])]

\* the try block of the finally clause: its next call
finally(f) ==
    IF f.page = "open" THEN [f EXCEPT !.stage = "page.close"]
    ELSE IF f.browser = "open" THEN [f EXCEPT !.stage = "browser.close"]
    ELSE [f EXCEPT !.stage = "p.stop"]

\* the inner try block is left by a return or an exception
leave(f, pending) == finally([f EXCEPT !.pending = Some(pending)])

\* what the awaited calls of run_accessibility_check may return
AuditAnswers(stage) ==
    IF stage = "evaluate"
    THEN {None} \cup { Some([violations |-> violations]) : violations \in ViolationLists }
    ELSE {None}

\* run_accessibility_check from the answer of the awaited call on
run_accessibility_check_resume(f, answer) ==
    LET ok == answer.kind = "value"
        e == Raise(Exception(answer.msg))
    IN  IF f.stage = "start"
        THEN IF ok THEN [f EXCEPT !.p = "started", !.stage = "launch"]
             ELSE outer_except([f EXCEPT !.pending = Some(e)])
        ELSE IF f.stage = "launch"
        THEN IF ok THEN [f EXCEPT !.browser = "open", !.stage = "new_page"]
             ELSE leave(f, e)
        ELSE IF f.stage = "new_page"
        THEN IF ok THEN [f EXCEPT !.page = "open", !.stage = "set_user_agent"]
             ELSE leave(f, e)
        ELSE IF f.stage = "set_user_agent"
        THEN IF ok THEN [f EXCEPT !.stage = "goto"] ELSE leave(f, e)
        ELSE IF f.stage = "goto"
        THEN IF ok THEN [f EXCEPT !.stage = "wait_for_timeout"]
             ELSE leave(f, Return(EmptyDict))
        ELSE IF f.stage = "wait_for_timeout"
        THEN IF ok THEN [f EXCEPT !.stage = "add_script_tag"] ELSE leave(f, e)
        ELSE IF f.stage = "add_script_tag"
        THEN IF ok THEN [f EXCEPT !.stage = "wait_for_function"]
             ELSE leave(f, Return(EmptyDict))
        ELSE IF f.stage = "wait_for_function"
        THEN IF ok THEN [f EXCEPT !.stage = "evaluate"]
             ELSE leave(f, Return(EmptyDict))
        ELSE IF f.stage = "evaluate"
        THEN IF ok /\ answer.value # None
             THEN leave(f, Return(IF truthy(answer.value[1]) THEN answer.value[1]
                                  ELSE EmptyDict))
             ELSE leave(f, Return(EmptyDict))
        ELSE IF f.stage = "page.close"
        THEN IF ok THEN finally([f EXCEPT !.page = "closed"])
             ELSE outer_except([f EXCEPT !.page = "close failed"])
        ELSE IF f.stage = "browser.close"
        THEN IF ok THEN finally([f EXCEPT !.browser = "closed"])
             ELSE outer_except([f EXCEPT !.browser = "close failed"])
        ELSE IF ok THEN outer_except([f EXCEPT !.p = "stopped"])
             ELSE outer_except([f EXCEPT !.p = "stop failed"])

AccessibilityResponse(url, violations, summary) ==
    [url |-> url, violations |-> violations, summary |-> summary,
     total_violations |-> Len(violations)]

\* the except clause of check_accessibility
check_accessibility_except(o) ==
    IF o.kind = "raise"
    THEN Raise(HTTPException(500, <<"Error processing request: ">> \o str(o.exc)))
    ELSE o

\* check_accessibility from the report on, given the summary
check_accessibility_end(request, result, summary) ==
    check_accessibility_except(
        IF ~truthy(result)
        THEN Raise(HTTPException(400, <<"Failed to generate accessibility report">>))
        ELSE Return(AccessibilityResponse(request.url, violations_of(result), summary)))

\* generate_summary has ended
SummaryEnded(violations, calls, outcome) ==
    Some([violations |-> violations, calls |-> calls, outcome |-> outcome])

\* The handler goes on after an awaited call of run_accessibility_check: to
\* the next awaited call, to the first model call of generate_summary, or to
\* the response.
AfterCall(request, f) ==
    IF f.stage # "returned"
    THEN /\ check' = Some([request |-> request, frame |-> f])
         /\ summarizing' = None
         /\ ended' = ended
         /\ resp' = NoResponse
    ELSE LET result == f.outcome[1].value
             g == generate_summary_begin(violations_of(result))
         IN  /\ check' = None
             /\ IF truthy(result) /\ request.summarize
                THEN IF g.kind = "call"
                     THEN /\ summarizing' = Some([request |-> request, result |-> result,
                                              ctx |-> g.ctx, calls |-> <<>>])
                          /\ ended' = [check |-> Some(f), summary |-> None]
                          /\ resp' = NoResponse
                     ELSE /\ summarizing' = None
                          /\ ended' = [check |-> Some(f),
                                       summary |-> SummaryEnded(violations_of(result),
                                                                <<>>, g)]
                          /\ resp' = respond(request,
                                             check_accessibility_end(request, result,
                                                                     Some(g.value)))
                ELSE /\ summarizing' = None
                     /\ ended' = [check |-> Some(f), summary |-> None]
                     /\ resp' = respond(request,
                                        check_accessibility_end(request, result, None))

\* POST /web-accessibility/check-accessibility
CheckAccessibility(summarize) ==
    /\ check = None
    /\ summarizing = None
    /\ check' = Some([request |-> [endpoint |-> "check-accessibility",
                                   url |-> "url", summarize |-> summarize],
                      frame |-> run_accessibility_check_begin])
    /\ ended' = NoEnd
    /\ resp' = NoResponse
    /\ UNCHANGED <<summarizing, taskvars, syncvars, storevars>>

\* The awaited call of run_accessibility_check answers.
PlaywrightAnswers(answer) ==
    /\ check # None
    /\ AfterCall(check[1].request, run_accessibility_check_resume(check[1].frame, answer))
    /\ UNCHANGED <<taskvars, syncvars, storevars>>

PlaywrightReturns(value) ==
    /\ check # None
    /\ value \in AuditAnswers(check[1].frame.stage)
    /\ PlaywrightAnswers([kind |-> "value", value |-> value])

PlaywrightRaises(msg) ==
    /\ check # None
    /\ PlaywrightAnswers([kind |-> "error", msg |-> msg])

\* The model call of generate_summary for the current chunk ends.
ModelAnswers(answer) ==
    /\ summarizing # None
    /\ LET s == summarizing[1]
           g == generate_summary_resume(s.ctx, answer)
           calls == Append(s.calls, [chunk |-> s.ctx.input_chunks[s.ctx.i],
                                     answer |-> answer])
       IN  IF g.kind = "call"
           THEN /\ summarizing' = Some([s EXCEPT !.ctx = g.ctx, !.calls = calls])
                /\ ended' = ended
                /\ resp' = NoResponse
           ELSE /\ summarizing' = None
                /\ ended' = [ended EXCEPT
                               !.summary = SummaryEnded(violations_of(s.result), calls, g)]
                /\ resp' = respond(s.request,
                                   check_accessibility_end(s.request, s.result,
                                                           Some(g.value)))
    /\ UNCHANGED <<check, taskvars, syncvars, storevars>>

ModelReturns(text) ==
    /\ summarizing # None
    /\ ModelAnswers([kind |-> "text", text |-> text])

ModelRaises(msg) ==
    /\ summarizing # None
    /\ ModelAnswers([kind |-> "error", msg |-> msg])

\* every value an awaited call may return
AllAuditAnswers == AuditAnswers("evaluate")

AuditNext ==
    \/ \E summarize \in BOOLEAN : CheckAccessibility(summarize)
    \/ \E value \in AllAuditAnswers : PlaywrightReturns(value)
    \/ \E msg \in ProviderErrors : PlaywrightRaises(msg)
    \/ \E text \in SummaryTexts : ModelReturns(text)
    \/ \E msg \in ProviderErrors : ModelRaises(msg)

AuditSpec == Init /\ [][AuditNext]_vars

----------------------------------------------------------------------------
(* Properties                                                              *)

TaskStatuses == {"processing", "completed", "failed"}
TerminalStatuses == {"completed", "failed"}

Terminal(t) == t \in DOMAIN tasks /\ tasks[t].status \in TerminalStatuses

\* C1: the status of every task is always processing, completed or failed;
\* an entry is created with status processing; and once a status is
\* completed or failed no step changes it.
C1_StatusMachine ==
    [][ /\ \A t \in DOMAIN tasks' : tasks'[t].status \in TaskStatuses
        /\ \A t \in DOMAIN tasks' \ DOMAIN tasks : tasks'[t].status = "processing"
        /\ \A t \in DOMAIN tasks :
             tasks[t].status \in TerminalStatuses
               => t \in DOMAIN tasks' /\ tasks'[t].status = tasks[t].status ]_vars

\* A completed and a failed task exist and requests were served after that.
C1_Witness ==
    /\ \E t \in DOMAIN tasks : tasks[t].status = "completed"
    /\ \E t \in DOMAIN tasks : tasks[t].status = "failed"
    /\ resp.kind = "poll" /\ resp.code = 200 /\ resp.body.status \in TerminalStatuses

\* C2: the run of a task is scheduled once, when the task is submitted,
\* starts at most once, and writes the status once, from processing to
\* completed or failed; a registry entry changes in no other step, and its
\* file_path and process_type never change.
C2_SingleRun ==
    /\ [](\A t \in TaskIds :
            /\ hist[t].scheduled = (IF t \in DOMAIN tasks THEN 1 ELSE 0)
            /\ hist[t].started <= 1
            /\ hist[t].transitions <= hist[t].started
            /\ (t \in DOMAIN background /\ background[t].pc = "done")
                 => hist[t].transitions = 1 /\ Terminal(t))
    /\ [][ \A t \in DOMAIN tasks :
             /\ t \in DOMAIN tasks'
             /\ tasks'[t].file_path = tasks[t].file_path
             /\ tasks'[t].process_type = tasks[t].process_type
             /\ tasks'[t] # tasks[t]
                  => /\ tasks[t].status = "processing"
                     /\ tasks'[t].status \in TerminalStatuses
                     /\ hist[t].transitions = 0
                     /\ hist'[t].transitions = 1 ]_vars

\* Both tasks have finished their single run.
C2_Witness ==
    /\ Cardinality(DOMAIN tasks) = 2
    /\ \A t \in DOMAIN tasks :
         Terminal(t) /\ hist[t].started = 1 /\ hist[t].transitions = 1

\* C3: a stored task has a result only when completed and an error only
\* when failed, never both, and neither while processing; the same holds
\* of every body returned by a poll.
C3_ResultErrorExclusive ==
    /\ \A t \in DOMAIN tasks :
         /\ "result" \in DOMAIN tasks[t] => tasks[t].status = "completed"
         /\ "error" \in DOMAIN tasks[t] => tasks[t].status = "failed"
         /\ ~("result" \in DOMAIN tasks[t] /\ "error" \in DOMAIN tasks[t])
    /\ (resp.kind = "poll" /\ resp.code = 200)
         => /\ resp.body.result # None => resp.body.status = "completed"
            /\ resp.body.error # None => resp.body.status = "failed"
            /\ ~(resp.body.result # None /\ resp.body.error # None)

\* A poll returned a failed task with its error while another task is
\* stored completed with its result.
C3_Witness ==
    /\ resp.kind = "poll" /\ resp.code = 200
    /\ resp.body.status = "failed" /\ resp.body.error # None
    /\ \E t \in DOMAIN tasks : tasks[t].status = "completed" /\ "result" \in DOMAIN tasks[t]

\* C4: when the adapter operation of a run returned, the task is completed
\* and its result is the returned value; when it raised, the task is failed,
\* its error is the message of the exception and it has no result.
C4_OutcomeRecorded ==
    \A t \in TaskIds :
      hist[t].outcome # None =>
        LET o == hist[t].outcome[1]
        IN  /\ o.kind \in {"return", "raise"}
            /\ o.kind = "return"
                 => /\ tasks[t].status = "completed"
                    /\ tasks[t].result = o.value
                    /\ "error" \notin DOMAIN tasks[t]
            /\ o.kind = "raise"
                 => /\ tasks[t].status = "failed"
                    /\ tasks[t].error = o.exc.msg
                    /\ "result" \notin DOMAIN tasks[t]

\* One run returned and another raised after a provider failure.
C4_Witness ==
    /\ \E t \in TaskIds : hist[t].outcome # None /\ hist[t].outcome[1].kind = "return"
    /\ \E t \in TaskIds :
         /\ hist[t].outcome # None
         /\ hist[t].outcome[1].kind = "raise"
         /\ hist[t].calls >= 1

\* the response was sent for the submission that drew identifier t
ResponseSent(t) == t \in DOMAIN background /\ background[t].pc \in {"sent", "running", "done"}

\* C5 as stated: a submission with a process type outside transcription,
\* translation, summarization is answered with a task identifier and a
\* registry entry exists for it.
C5_UnknownTypeCreatesTask ==
    (resp.kind = "submit" /\ resp.process_type \notin ProcessingType)
      => (resp.code = 200 /\ resp.body.task_id \in DOMAIN tasks)

\* C5 as amended: a submission with a process type outside the three is
\* rejected with status 422 in a step that leaves registry, disk, pending
\* uploads and background runs unchanged; every registry entry has one of the
\* three process types and no run ends in the runner's "Unsupported process
\* type" error.
C5_UnknownTypeRejected ==
    /\ []((resp.kind = "submit" /\ resp.process_type \notin ProcessingType)
            => resp.code = 422)
    /\ [](\A t \in DOMAIN tasks :
            /\ tasks[t].process_type \in ProcessingType
            /\ hist[t].outcome # None /\ hist[t].outcome[1].kind = "raise"
                 => hist[t].outcome[1].exc.type # "ValueError")
    /\ [][ (resp' # resp /\ resp'.kind = "submit" /\ resp'.process_type \notin ProcessingType)
             => UNCHANGED <<tasks, files, uploads, background, hist>> ]_vars

\* A submission with an unknown type was just rejected while the registry
\* holds a finished task.
C5_Witness ==
    /\ resp.kind = "submit" /\ resp.code = 422 /\ resp.process_type \notin ProcessingType
    /\ \E t \in TaskIds : Terminal(t)

\* C6: a poll of an identifier that is not in the registry is answered 404
\* "Task not found" and changes nothing but the response sent.
C6_PollUnknown ==
    [][ (resp' # resp /\ resp'.kind = "poll" /\ resp'.task_id \notin DOMAIN tasks)
          => /\ resp'.code = 404
             /\ resp'.detail = "Task not found"
             /\ UNCHANGED <<tasks, files, uploads, background, call, hist>> ]_vars

\* An unknown identifier was polled while the registry holds a task.
C6_Witness ==
    /\ resp.kind = "poll" /\ resp.code = 404
    /\ resp.task_id \notin DOMAIN tasks
    /\ DOMAIN tasks # {}

\* C7: a poll changes nothing but the response sent; a record whose status
\* is completed or failed never changes again; a response that reported a
\* completed or failed task equals, in every later state, what the registry
\* holds for that task, and a poll of the same task that follows it returns
\* the same response.
C7_PollPureRead ==
    /\ []((resp.kind = "poll" /\ resp.code = 200 /\ resp.body.status \in TerminalStatuses)
            => /\ resp.task_id \in DOMAIN tasks
               /\ resp.body.status = tasks[resp.task_id].status
               /\ resp.body.result = get(tasks[resp.task_id], "result")
               /\ resp.body.error = get(tasks[resp.task_id], "error"))
    /\ [][ /\ (resp' # resp /\ resp'.kind = "poll")
               => UNCHANGED <<tasks, files, uploads, background, call, hist>>
           /\ \A t \in DOMAIN tasks :
                tasks[t].status \in TerminalStatuses
                  => t \in DOMAIN tasks' /\ tasks'[t] = tasks[t]
           /\ (/\ resp.kind = "poll" /\ resp.code = 200
               /\ resp.body.status \in TerminalStatuses
               /\ resp'.kind = "poll" /\ resp'.task_id = resp.task_id)
               => resp' = resp ]_vars

\* A finished task was polled and another task has finished as well.
C7_Witness ==
    /\ resp.kind = "poll" /\ resp.code = 200 /\ resp.body.status \in TerminalStatuses
    /\ \E u \in TaskIds \ {resp.task_id} : Terminal(u)

\* C8: when the response of a submission is sent, the payload is in the file
\* at the path of the response, the registry holds the task with status
\* processing and that path, and the run has not started; the response
\* carries nothing but task_id, message and file_path; a run starts only
\* after its response was sent; and a poll of an identifier whose response
\* was sent is never answered 404.
C8_SubmitOrdering ==
    /\ [][ /\ (resp' # resp /\ resp'.kind = "submit" /\ resp'.code = 200)
               => LET t == resp'.body.task_id
                      path == resp'.body.file_path
                  IN  /\ t \in DOMAIN tasks'
                      /\ tasks'[t].status = "processing"
                      /\ tasks'[t].file_path = path
                      /\ path \in DOMAIN files'
                      /\ hist'[t].payload = Some(files'[path])
                      /\ hist'[t].started = 0
                      /\ DOMAIN resp'.body = {"task_id", "message", "file_path"}
           /\ \A t \in TaskIds :
                hist'[t].started > hist[t].started => ResponseSent(t)
           /\ (resp' # resp /\ resp'.kind = "poll" /\ ResponseSent(resp'.task_id))
               => resp'.code = 200 ]_vars
    /\ [](resp.kind = "submit" => resp.code \in {200, 422})

\* The response of a second submission is sent while the run of the first
\* has finished.
C8_Witness ==
    /\ resp.kind = "submit" /\ resp.code = 200
    /\ \E t \in TaskIds \ {resp.body.task_id} : Terminal(t) /\ ResponseSent(t)

\* C9: with a provider that answers every call and a runner that is
\* scheduled, no task stays processing forever: again and again every task
\* in the registry (entries are never removed) is completed or failed; and
\* a poll of a completed or failed task returns that status.
C9_EventuallyTerminal ==
    /\ []<>(\A t \in DOMAIN tasks : Terminal(t))
    /\ [][ (resp' # resp /\ resp'.kind = "poll" /\ Terminal(resp'.task_id))
             => /\ resp'.code = 200
                /\ resp'.body.status = tasks[resp'.task_id].status ]_vars

\* A task whose run called the provider has finished and a poll reported it.
C9_Witness ==
    /\ resp.kind = "poll" /\ resp.code = 200
    /\ resp.body.status \in TerminalStatuses
    /\ hist[resp.task_id].calls >= 1

\* C10 as stated: a poll of a finished transcription task returns either
\* completed with a result that has a non-empty transcript, or failed with
\* an error string.
C10_TranscriptionOutcome ==
    (/\ resp.kind = "poll" /\ resp.code = 200
     /\ resp.task_id \in DOMAIN tasks
     /\ tasks[resp.task_id].process_type = "transcription"
     /\ resp.body.status \in TerminalStatuses)
      => \/ /\ resp.body.status = "completed"
            /\ resp.body.result # None
            /\ "transcript" \in DOMAIN resp.body.result[1]
            /\ resp.body.result[1].transcript # <<>>
         \/ /\ resp.body.status = "failed"
            /\ resp.body.error # None

\* C11 as stated: while a run is inside a provider call that has not
\* answered, polls are still served, submissions are still accepted and the
\* run of another task whose response was sent can still start.
C11_HangBlocksOnlyOwnTask ==
    call # None
      => /\ \A t \in TaskIds : ENABLED Poll(t)
         /\ \A p \in ProcessTypeInputs \ ProcessingType : ENABLED SubmitRejected(p)
         /\ \A t \in DOMAIN background \ {call[1].task_id} :
              MayStart(background[t]) => ENABLED BackgroundStart(t)

\* the path under which the upload of the submission with identifier t is kept
PathOf(t) ==
    IF t \in DOMAIN uploads THEN uploads[t].file_location ELSE background[t].file_path

\* the run of t takes its last step: its outcome is written
Finishes(t) ==
    /\ t \in DOMAIN background
    /\ background[t].pc # "done"
    /\ background'[t].pc = "done"

\* C12: a submission draws an identifier no earlier submission drew, so no
\* pending upload, scheduled run or registry entry is overwritten; the upload
\* paths of distinct submissions differ, one file per submission; and a step
\* that changes a registry entry is the last step of the run of that very
\* task, changes no other entry and ends no other run.
C12_DisjointKeys ==
    /\ [](/\ \A t, u \in Issued : t # u => PathOf(t) # PathOf(u)
          /\ Cardinality(DOMAIN files) = Cardinality(Issued)
          /\ DOMAIN uploads \cap DOMAIN background = {}
          /\ DOMAIN tasks = DOMAIN background)
    /\ [][ /\ \A t \in DOMAIN uploads' \ DOMAIN uploads :
                /\ t \notin Issued
                /\ t \notin DOMAIN tasks
                /\ hist[t] = NoHist
                /\ Issued' = Issued \cup {t}
           /\ \A t \in DOMAIN tasks :
                (t \in DOMAIN tasks' /\ tasks'[t] # tasks[t])
                  => /\ Finishes(t)
                     /\ \A u \in DOMAIN tasks \ {t} :
                          /\ u \in DOMAIN tasks'
                          /\ tasks'[u] = tasks[u]
                          /\ ~Finishes(u) ]_vars

\* Two submissions of the same type and extension were handled; the run of
\* one has finished while the other is inside its provider call.
C12_Witness ==
    \E t, u \in DOMAIN tasks :
      /\ t # u
      /\ tasks[t].process_type = tasks[u].process_type
      /\ tasks[t].file_path.ext = tasks[u].file_path.ext
      /\ Terminal(t)
      /\ call # None /\ call[1].task_id = u

\* C13: an identifier that is in the registry is in the registry after every
\* step.
C13_NeverDeleted ==
    [][DOMAIN tasks \subseteq DOMAIN tasks']_vars

\* The registry holds a finished task and one still processing, and the
\* finished one was just polled.
C13_Witness ==
    /\ resp.kind = "poll" /\ resp.code = 200
    /\ Terminal(resp.task_id)
    /\ \E u \in DOMAIN tasks : tasks[u].status = "processing"

\* C17 as stated, for tasks: a run whose provider call has failed enters no
\* further provider call, neither in the step in which the failure arrives
\* nor later, and the task ends failed.
C17_NoRetry ==
    /\ [][ \A t \in TaskIds :
             hist'[t].errors > 0 => hist'[t].calls = hist[t].calls ]_vars
    /\ [](\A t \in DOMAIN tasks :
            (hist[t].errors > 0 /\ Terminal(t)) => tasks[t].status = "failed")

\* C20: the file of every registry entry exists, holds the uploaded payload,
\* lies in the directory uploaded_<process type of the entry> and is named
\* by the task identifier; while the payload of a submission is still being
\* read there is no registry entry for it; and no step removes a file or
\* changes the file of a registry entry.
C20_UploadRetention ==
    /\ [](/\ \A t \in DOMAIN tasks :
               LET path == tasks[t].file_path
               IN  /\ path \in DOMAIN files
                   /\ Some(files[path]) = hist[t].payload
                   /\ path.dir = <<"uploaded_", tasks[t].process_type>>
                   /\ path.name = t
          /\ \A t \in DOMAIN uploads : t \notin DOMAIN tasks)
    /\ [][ /\ DOMAIN files \subseteq DOMAIN files'
           /\ \A t \in DOMAIN tasks :
                files'[tasks[t].file_path] = files[tasks[t].file_path] ]_vars

\* A failed task was just polled and its file is still in place, next to
\* the file of a task that is still processing.
C20_Witness ==
    /\ \E t \in DOMAIN tasks :
         tasks[t].status = "failed" /\ files[tasks[t].file_path] # <<>>
    /\ \E t \in DOMAIN tasks :
         tasks[t].status = "processing" /\ files[tasks[t].file_path] # <<>>
    /\ resp.kind = "poll" /\ resp.code = 200 /\ resp.body.status = "failed"

\* a provider call of the latest synchronous request failed
CallFailed == \E i \in DOMAIN log : log[i].ev = "call" /\ ~log[i].ok

\* the latest synchronous request made a provider call
CallMade == \E i \in DOMAIN log : log[i].ev = "call"

\* a response to a request of the given endpoints was sent by the latest step
Answered(endpoints) == resp.kind = "sync" /\ resp.request.endpoint \in endpoints

\* C14: spell-correct with a text that is empty or only whitespace is
\* answered 200 with corrected_text and original_text both equal to the
\* request text, without a provider call; the handler of such a request
\* never waits in a provider call.
C14_EmptyTextUnchanged ==
    /\ (Answered({"spell-correct"}) /\ strip(resp.request.text) = <<>>)
         => /\ resp.code = 200
            /\ resp.body.corrected_text = resp.request.text
            /\ resp.body.original_text = resp.request.text
            /\ ~CallMade
    /\ (req # None /\ req[1].request.endpoint = "spell-correct")
         => strip(req[1].request.text) # <<>>

\* A text of only whitespace was answered.
C14_Witness ==
    /\ Answered({"spell-correct"})
    /\ resp.request.text # <<>>
    /\ strip(resp.request.text) = <<>>
    /\ resp.code = 200

\* C15 as stated, for the synchronous file endpoints: an upload of an empty
\* file is answered with a 4xx status and no adapter operation was invoked.
C15_EmptyFileRejected ==
    (/\ Answered({"speech-to-text", "image-to-text", "pdf-to-markdown"})
     /\ resp.request.contents = <<>>)
      => /\ resp.code \in 400..499
         /\ log = <<>>

\* the message m occurs in the detail string
Embeds(detail, m) ==
    \E i \in 1..Len(detail) : i + Len(m) - 1 <= Len(detail) /\ SubSeq(detail, i, i + Len(m) - 1) = m

\* C16 as stated: when a provider call of a synchronous request failed, the
\* response has a 5xx status and a detail that embeds the provider's message.
C16_ProviderFailureSurfaced ==
    (resp.kind = "sync" /\ CallFailed)
      => /\ resp.code \in 500..599
         /\ \E m \in ProviderErrors : Embeds(resp.detail, m)

\* C18 as stated: an adapter operation one of whose provider calls failed
\* ends by raising, never by returning.
C18_AdapterFailsOnProviderError ==
    \A i, j \in DOMAIN log :
      (log[i].ev = "call" /\ ~log[i].ok /\ log[j].ev = "exit") => log[j].kind = "raise"

\* C19 as stated: a non-empty upload to image-to-text (method tesseract or
\* gemini), pdf-to-markdown or speech-to-text none of whose provider calls
\* failed is answered 200 with a text or markdown field.
C19_SuccessHasText ==
    (/\ Answered({"speech-to-text", "image-to-text", "pdf-to-markdown"})
     /\ resp.request.contents # <<>>
     /\ resp.request.endpoint = "image-to-text" => resp.request.method \in {"tesseract", "gemini"}
     /\ ~CallFailed)
      => /\ resp.code = 200
         /\ \E field \in {"text", "markdown"} : field \in DOMAIN resp.body

\* C21 as stated: an image-to-text request whose method is neither tesseract
\* nor gemini is answered with a 4xx status and no adapter operation was
\* invoked for it.
C21_InvalidMethodRejected ==
    (/\ Answered({"image-to-text"})
     /\ resp.request.method \notin {"tesseract", "gemini"})
      => /\ resp.code \in 400..499
         /\ log = <<>>

\* C22 as stated: a file posted to /process/transcribe is answered 200 and
\* a task with process type transcription and status processing exists for
\* it, with its background run scheduled.
C22_TranscribeShortcut ==
    (resp.kind = "submit" /\ resp.process_type = "transcribe")
      => /\ resp.code = 200
         /\ resp.body.task_id \in DOMAIN tasks
         /\ tasks[resp.body.task_id].process_type = "transcription"
         /\ hist[resp.body.task_id].scheduled = 1

\* the provider call stages of the adapter operation for a process type
StagesOf(process_type) ==
    IF process_type = "transcription" THEN {"transcribe"}
    ELSE IF process_type = "translation" THEN {"translate"}
    ELSE {"summarize_direct", "summarize_transcribe", "summarize_summary"}

\* C24: the arguments of a scheduled run are the process type and file path
\* of the task's registry entry; a provider call in progress belongs to the
\* adapter operation of the stored process type of its task; and a started
\* transcription or translation run made no provider call exactly when the
\* extension of the task's own recorded file is unsupported (with the model
\* initialised), its result then being the unsupported-format result.
C24_DispatchMatches ==
    /\ \A t \in DOMAIN tasks :
         /\ background[t].process_type = tasks[t].process_type
         /\ background[t].file_path = tasks[t].file_path
    /\ call # None => call[1].stage \in StagesOf(tasks[call[1].task_id].process_type)
    /\ \A t \in DOMAIN tasks :
         (/\ tasks[t].process_type \in {"transcription", "translation"}
          /\ gemini_model
          /\ hist[t].started > 0)
           => /\ hist[t].calls = 0 <=> ~is_supported_file(tasks[t].file_path)
              /\ hist[t].calls = 0 => hist[t].outcome = Some(Return(UnsupportedFormat))
    /\ \A t \in DOMAIN tasks :
         (tasks[t].status = "completed" /\ "translation" \in DOMAIN tasks[t].result)
           => tasks[t].process_type = "translation"

\* A translation run is inside its provider call while a transcription task
\* with a file of another, unsupported extension has already ended.
C24_Witness ==
    /\ call # None
    /\ tasks[call[1].task_id].process_type = "translation"
    /\ call[1].stage = "translate"
    /\ \E t \in DOMAIN tasks :
         /\ tasks[t].process_type = "transcription"
         /\ ~is_supported_file(tasks[t].file_path)
         /\ Terminal(t)

\* C28 as stated: a task whose file has an extension outside the supported
\* formats made no provider call.
C28_UnsupportedNoCall ==
    \A t \in DOMAIN tasks :
      ~is_supported_file(tasks[t].file_path) => hist[t].calls = 0

\* C29 as stated: the result of a completed task has no error key.
C29_CompletedHasNoError ==
    \A t \in DOMAIN tasks :
      tasks[t].status = "completed" => "error" \notin DOMAIN tasks[t].result

\* C30 as stated: an object written under a name its adapter generated is
\* never written again by another invocation that generates its object name.
C30_NoOverwrite ==
    [][ \A name \in DOMAIN bucket :
          (bucket[name].generated /\ bucket'[name].generated)
            => bucket'[name].writer = bucket[name].writer ]_vars

\* the report run_accessibility_check returned for the latest request
Report == ended.check[1].outcome[1].value

\* C23 as stated: when run_accessibility_check returned an empty report the
\* endpoint answers 400 "Failed to generate accessibility report", and it
\* answers 500 only when a report was produced.
C23_EmptyReportIs400 ==
    Answered({"check-accessibility"})
      => /\ ~truthy(Report)
              => /\ resp.code = 400
                 /\ resp.detail = <<"Failed to generate accessibility report">>
         /\ resp.code = 500 => truthy(Report)

\* the violation texts of the chunks, concatenated in chunk order
RECURSIVE Flatten(_)
Flatten(chunks) ==
    IF Len(chunks) = 0 THEN <<>> ELSE Head(chunks) \o Flatten(Tail(chunks))

\* C25: while generate_summary is summarizing its chunks, the chunks
\* concatenated in order are the texts of the violations in order; no chunk
\* is empty; a chunk of more than one text has at most 512 characters, and
\* a chunk of more than 512 characters is one text that is itself longer.
C25_ChunksPartition ==
    summarizing # None
      => LET chunks == summarizing[1].ctx.input_chunks
             violations == violations_of(summarizing[1].result)
         IN  /\ Len(Flatten(chunks)) = Len(violations)
             /\ \A k \in 1..Len(violations) :
                  Flatten(chunks)[k] = violation_text(violations[k])
             /\ \A i \in 1..Len(chunks) :
                  /\ Len(chunks[i]) > 0
                  /\ Len(chunks[i]) > 1 => chars(chunks[i]) <= CHUNK_SIZE
                  /\ chars(chunks[i]) > CHUNK_SIZE
                       => Len(chunks[i]) = 1 /\ chunks[i][1].len > CHUNK_SIZE

\* The chunks being summarized are a chunk of two texts, closed because the
\* next text did not fit, and a chunk of one text longer than the limit.
C25_Witness ==
    /\ summarizing # None
    /\ Len(summarizing[1].ctx.input_chunks) = 2
    /\ Len(summarizing[1].ctx.input_chunks[1]) = 2
    /\ chars(summarizing[1].ctx.input_chunks[2]) > CHUNK_SIZE

\* the part of the returned text for the i-th model call
PartOf(calls, i) ==
    IF calls[i].answer.kind = "text" THEN calls[i].answer.text
    ELSE <<"Error generating summary for part ", ToString(i)>>

\* C26: generate_summary ends by returning. For an empty list it returns the
\* fixed message after no model call. Otherwise the model was called once
\* per chunk, in chunk order, and the returned text is the parts joined by a
\* blank line, the part of a chunk being the model's summary or, when the
\* call failed, the placeholder with the chunk's number; while it runs, the
\* calls made so far are those of the chunks before the current one. The
\* endpoint then answers 200 with that text as summary.
C26_SummaryPerChunk ==
    /\ ended.summary # None
         => LET s == ended.summary[1]
                chunks == chunk_loop(s.violations, <<>>, <<>>)
            IN  /\ s.outcome.kind = "return"
                /\ Len(s.violations) = 0
                     => Len(s.calls) = 0 /\ s.outcome.value = NoViolationsMessage
                /\ Len(s.violations) > 0
                     => /\ Len(s.calls) = Len(chunks)
                        /\ \A i \in 1..Len(s.calls) : s.calls[i].chunk = chunks[i]
                        /\ s.outcome.value =
                             join([i \in 1..Len(s.calls) |-> PartOf(s.calls, i)], "\n\n")
                /\ Answered({"check-accessibility"})
                     => /\ resp.code = 200
                        /\ resp.body.summary = Some(s.outcome.value)
    /\ summarizing # None
         => LET s == summarizing[1]
            IN  /\ Len(s.calls) = s.ctx.i - 1
                /\ s.ctx.i \in 1..Len(s.ctx.input_chunks)
                /\ \A j \in 1..Len(s.calls) : s.calls[j].chunk = s.ctx.input_chunks[j]

\* generate_summary ended after the model call of the first of several chunks
\* failed and a later one succeeded.
C26_Witness ==
    /\ ended.summary # None
    /\ Len(ended.summary[1].calls) >= 2
    /\ ended.summary[1].calls[1].answer.kind = "error"
    /\ ended.summary[1].calls[2].answer.kind = "text"
    /\ Answered({"check-accessibility"}) /\ resp.code = 200

\* C27 as stated: run_accessibility_check ends by returning, and when it
\* returns after the playwright instance was started, the instance is
\* stopped, the browser if launched is closed and the page if opened is
\* closed. A resource whose own close or stop call raised is not counted
\* against the statement: only one that was left without such a call is.
C27_CheckReleasesBrowser ==
    ended.check # None
      => LET f == ended.check[1]
         IN  /\ f.outcome[1].kind = "return"
             /\ f.p # "none"
                  => /\ f.p \in {"stopped", "stop failed"}
                     /\ f.browser \in {"none", "closed", "close failed"}
                     /\ f.page \in {"none", "closed", "close failed"}

====
